---- MODULE Spec2Model ----
(***************************************************************************)
(* A model of the OBS recording orchestrator of wow-recorder               *)
(* (src/src/main/obsRecorder.ts, src/src/main/obsAudioDeviceUtils.ts).     *)
(*                                                                         *)
(* The module-level state of obsRecorder.ts (obsInitialized,               *)
(* timerVideoSourceSize, lastVideoSourceSize, waitQueue) is the state of   *)
(* the model, together with the part of the engine (obs-studio-node) the   *)
(* code drives: the IPC host, the signal callback, the source handles with *)
(* their references, the output channels, the interval timers and the      *)
(* settings the code writes.                                               *)
(***************************************************************************)
EXTENDS Integers, Sequences, FiniteSets, TLC

\* JavaScript values that are not integers. A number is the pair
\* <<"num", n>>, so that it can be compared with NaN, Infinity and undefined.
Undefined == <<"undefined">>
NaN == <<"NaN">>
Infinity == <<"Infinity">>
Num(n) == <<"num", n>>

\* A record that may be undefined is a sequence of at most one record.
None == <<>>
Some(x) == <<x>>

(***************************************************************************)
(* Strings the code takes apart are sequences of one-character strings.    *)
(***************************************************************************)
Digits == <<"0", "1", "2", "3", "4", "5", "6", "7", "8", "9">>

IsDigit(c) == \E i \in 1..10 : Digits[i] = c

DigitVal(c) == (CHOOSE i \in 1..10 : Digits[i] = c) - 1

\* Number.prototype.toString of a non-negative integer.
RECURSIVE ToStr(_)
ToStr(n) == IF n < 10 THEN <<Digits[n + 1]>>
            ELSE ToStr(n \div 10) \o <<Digits[(n % 10) + 1]>>

\* The string `${w}x${h}`.
ResString(w, h) == ToStr(w) \o <<"x">> \o ToStr(h)

\* String.prototype.split('x').
RECURSIVE SplitX(_)
SplitX(s) ==
  IF \A i \in 1..Len(s) : s[i] # "x" THEN <<s>>
  ELSE LET k == CHOOSE i \in 1..Len(s) :
                   s[i] = "x" /\ \A j \in 1..(i - 1) : s[j] # "x"
       IN <<SubSeq(s, 1, k - 1)>> \o SplitX(SubSeq(s, k + 1, Len(s)))

\* The value of a run of digits, read left to right.
RECURSIVE DigitsValue(_, _)
DigitsValue(s, acc) ==
  IF s = <<>> \/ ~IsDigit(Head(s)) THEN acc
  ELSE DigitsValue(Tail(s), acc * 10 + DigitVal(Head(s)))

\* parseInt(v, 10) of a string without sign or white space: the value of the
\* leading digits, NaN when there is none (and for undefined).
parseInt(s) ==
  IF s = Undefined \/ s = <<>> \/ ~IsDigit(Head(s)) THEN NaN
  ELSE Num(DigitsValue(s, 0))

\* Element i (0-based) of a JavaScript array: undefined outside the array.
At(arr, i) == IF i >= 0 /\ i < Len(arr) THEN arr[i + 1] ELSE Undefined

\* Arithmetic on numbers that may be NaN; undefined converts to NaN.
IsNum(x) == Len(x) = 2 /\ x[1] = "num"
Sub(a, b) == IF IsNum(a) /\ IsNum(b) THEN Num(a[2] - b[2]) ELSE NaN
Mul(a, b) == IF IsNum(a) /\ IsNum(b) THEN Num(a[2] * b[2]) ELSE NaN
Add(a, b) == IF IsNum(a) /\ IsNum(b) THEN Num(a[2] + b[2]) ELSE NaN
Abs(a) == IF IsNum(a) THEN Num(IF a[2] < 0 THEN -a[2] ELSE a[2]) ELSE NaN

\* Math.min(...arr): Infinity for no argument, NaN when an argument is NaN.
MathMin(arr) ==
  IF arr = <<>> THEN Infinity
  ELSE IF \E i \in 1..Len(arr) : ~IsNum(arr[i]) THEN NaN
  ELSE CHOOSE m \in {arr[i] : i \in 1..Len(arr)} :
         \A i \in 1..Len(arr) : m[2] <= arr[i][2]

\* Array.prototype.indexOf: strict equality, so NaN is never found; -1 when
\* nothing is found.
IndexOf(arr, v) ==
  IF v # NaN /\ \E i \in 1..Len(arr) : arr[i] = v
  THEN (CHOOSE i \in 1..Len(arr) :
          arr[i] = v /\ \A j \in 1..(i - 1) : arr[j] # v) - 1
  ELSE -1

\* parseResolutionsString: '1920x1080' to a Size.
parseResolutionsString(value) ==
  LET parts == SplitX(value)
  IN [width |-> parseInt(At(parts, 0)), height |-> parseInt(At(parts, 1))]

\* The sorting value with the same weight on width and height.
ScoreEqualWeights(target, v) ==
  Abs(Add(Sub(target.width, At(v, 0)), Sub(target.height, At(v, 1))))

\* The sorting value getClosestResolution gives the candidate v = [w, h].
Score(target, v) ==
  Abs(Add(Mul(Sub(target.width, At(v, 0)), Num(2)),
          Mul(Sub(target.height, At(v, 1)), Num(4))))

\* getClosestResolution(resolutions, target).
getClosestResolution(resolutions, target) ==
  LET numericResolutions ==
        [i \in 1..Len(resolutions) |->
           LET parts == SplitX(resolutions[i])
           IN [j \in 1..Len(parts) |-> parseInt(parts[j])]]
      indexArray ==
        [i \in 1..Len(resolutions) |-> Score(target, numericResolutions[i])]
      minValue == MathMin(indexArray)
  IN At(resolutions, IndexOf(indexArray, minValue))

(***************************************************************************)
(* Bounds of the model.                                                    *)
(***************************************************************************)
\* reconfigure calls in one behaviour.
MaxReconfigures == 2
\* Signals waiting in the queue at one time.
MaxQueue == 1
\* Listeners of timed-out waits left in the queue at one time.
MaxAbandoned == 1
\* Input and output devices of a small device snapshot, and the output
\* devices of a large one.
MaxInputs == 2
MaxOutputs == 1
ManyOutputs == 62
\* Lengths of the lists and the dimensions (in units of DimStep) closest is
\* applied to.
MaxList == 2
MaxDim == 3
DimStep == 5

(***************************************************************************)
(* The state.                                                              *)
(***************************************************************************)
VARIABLES
  obsInitialized,        \* let obsInitialized
  timerVideoSourceSize,  \* let timerVideoSourceSize: the id setInterval gave
  lastVideoSourceSize,   \* let lastVideoSourceSize
  waitQueue,             \* const waitQueue: [queue, listeners]
  hosted,                \* engine: the IPC host is connected
  signalCallback,        \* engine: the output-signal callback is connected
  sources,               \* engine: the sources that hold a reference
  channels,              \* engine: output channel -> source id
  timers,                \* Node: the active interval timers
  settings,              \* engine: the settings the code writes
  call,                  \* the start()/stop() call in progress or last ended
  engineCalls,           \* history: engine calls of the last handler
  returned,              \* history: what the last handler returned or threw
  lost,                  \* history: signals an abandoned listener was given
  shutdownSinceWatch,    \* history: shutdown() returned true after the last
                         \* watchVideoSourceSize
  tickedAfterShutdown,   \* history: a watcher tick ran in such a state
  reconfigures,          \* history: number of reconfigure calls
  closestCall            \* the arguments and result of getClosestResolution

vars == <<obsInitialized, timerVideoSourceSize, lastVideoSourceSize, waitQueue,
          hosted, signalCallback, sources, channels, timers, settings, call,
          engineCalls, returned, lost, shutdownSinceWatch,
          tickedAfterShutdown, reconfigures, closestCall>>

(***************************************************************************)
(* The engine, as the code drives it.  A source is reference counted: it   *)
(* is created with one reference, an output channel and a scene item each  *)
(* hold one, getOutputSource hands out one, release() gives one back and  *)
(* the source is destroyed with its last reference.  remove() marks a      *)
(* source removed for its other holders.  The source the n-th create of    *)
(* the g-th reconfigure made is <<g, n>>.                                  *)
(*                                                                         *)
(* A synchronous handler runs on a machine record m: the module variables  *)
(* and engine state it changes, the engine calls it makes (m.calls) and    *)
(* the exception it has thrown (m.thrown, NoError while it runs).          *)
(***************************************************************************)
NoError == <<"no error">>

Log(m, c) == [m EXCEPT !.calls = Append(@, c)]

Throw(m, e) == [m EXCEPT !.thrown = e]

NewSource(kind) ==
  [kind |-> kind, refs |-> 1, removed |-> FALSE, device_id |-> Undefined,
   audioMixers |-> {}, muted |-> FALSE, item |-> Undefined, scale |-> Undefined]

\* The id of the source created last.
LastId(m) == <<m.gen, m.created>>

\* InputFactory.create(kind, ...) and SceneFactory.create(name).
Create(m, kind) ==
  LET id == <<m.gen, m.created + 1>>
  IN [m EXCEPT !.created = @ + 1,
               !.sources = (id :> NewSource(kind)) @@ @,
               !.calls = Append(@, <<"create", kind, id>>)]

\* One reference of source id is given back; with the last one the source is
\* destroyed, and a scene then gives back the reference its item holds.
RECURSIVE DropRef(_, _)
DropRef(srcs, id) ==
  IF id \notin DOMAIN srcs THEN srcs
  ELSE IF srcs[id].refs > 1 THEN [srcs EXCEPT ![id].refs = @ - 1]
  ELSE LET rest == [i \in DOMAIN srcs \ {id} |-> srcs[i]]
       IN IF srcs[id].item = Undefined THEN rest
          ELSE DropRef(rest, srcs[id].item)

AddRef(srcs, id) == [srcs EXCEPT ![id].refs = @ + 1]

\* ISource.release().
Release(m, id) ==
  [m EXCEPT !.sources = DropRef(@, id), !.calls = Append(@, <<"release", id>>)]

\* ISource.remove().
Remove(m, id) ==
  [m EXCEPT !.sources = IF id \in DOMAIN @ THEN [@ EXCEPT ![id].removed = TRUE]
                        ELSE @,
            !.calls = Append(@, <<"remove", id>>)]

\* Global.getOutputSource(index): the source in the channel, with a reference
\* of its own, or undefined.
GetOutputSource(m, index) ==
  IF index \in DOMAIN m.channels
  THEN [m EXCEPT !.sources = AddRef(@, m.channels[index]),
                 !.calls = Append(@, <<"getOutputSource", index>>)]
  ELSE Log(m, <<"getOutputSource", index>>)

\* Global.setOutputSource(index, source): the channel takes a reference of the
\* source and gives back the one of the source it held; null empties it.
SetOutputSource(m, index, id) ==
  LET held == IF id = Undefined THEN m.sources ELSE AddRef(m.sources, id)
      freed == IF index \in DOMAIN m.channels
               THEN DropRef(held, m.channels[index]) ELSE held
      chans == IF id = Undefined
               THEN [c \in DOMAIN m.channels \ {index} |-> m.channels[c]]
               ELSE (index :> id) @@ m.channels
  IN [m EXCEPT !.sources = freed, !.channels = chans,
               !.calls = Append(@, <<"setOutputSource", index, id>>)]

\* setSetting(category, parameter, value): the settings are read, and saved
\* when the value differs from the one they hold.
setSetting(m, key, value) ==
  LET read == Log(m, <<"getSettings", key>>)
  IN IF value # m.settings.params[key]
     THEN [read EXCEPT !.settings.params[key] = value,
                       !.calls = Append(@, <<"saveSettings", key>>)]
     ELSE read

\* setSetting('Output', `Track${index}Name`, value).
TrackName(m, index) ==
  IF index \in DOMAIN m.settings.trackNames
  THEN m.settings.trackNames[index] ELSE Undefined

setTrackName(m, index, value) ==
  LET read == Log(m, <<"getSettings", "Output.TrackName", index>>)
  IN IF value # TrackName(m, index)
     THEN [read EXCEPT !.settings.trackNames = (index :> value) @@ @,
                       !.calls = Append(@, <<"saveSettings", "Output.TrackName", index>>)]
     ELSE read

(***************************************************************************)
(* Audio devices and tracks.                                               *)
(***************************************************************************)
\* The strings the code compares device ids with.
StrAll == <<"a", "l", "l">>
StrNone == <<"n", "o", "n", "e">>
StrDefault == <<"d", "e", "f", "a", "u", "l", "t">>
StrEmpty == <<>>

\* Array.prototype.filter(v => v.id !== 'default').
RECURSIVE FilterNotDefault(_)
FilterNotDefault(devices) ==
  IF devices = <<>> THEN <<>>
  ELSE IF Head(devices).id # StrDefault
       THEN <<Head(devices)>> \o FilterNotDefault(Tail(devices))
       ELSE FilterNotDefault(Tail(devices))

\* getAudioDevices(type, subtype): a dummy source is created, the items of its
\* device_id property are read, and it is released.
getAudioDevices(m, type) ==
  Log(Log(m, <<"create dummy", type>>), <<"release dummy", type>>)

\* getAvailableAudioInputDevices() and getAvailableAudioOutputDevices(): the
\* devices the engine lists (env), without the default device.
getAvailableAudioInputDevices(env) == FilterNotDefault(env.inputDevices)

getAvailableAudioOutputDevices(env) == FilterNotDefault(env.outputDevices)

\* The upper end of the loop of clearSources.
ClearLimit == 64

\* The width of the operands of << and |.
IntBits == 32

\* 1 | (1 << currentTrack-1), as the set of the bits that are set: the shift
\* count is taken modulo 32.
AudioMixers(currentTrack) == {0, (currentTrack - 1) % IntBits}

\* The mute flag with the comparison of the device id turned around.
MutedSelected(selection, device) ==
  selection = StrNone \/ (selection # StrAll /\ device.id = selection)

\* The mute flag of a device under a selection.
Muted(selection, device) ==
  selection = StrNone \/ (selection # StrAll /\ device.id # selection)

\* clearSources: one round of the loop.
clearSource(m, index) ==
  LET got == GetOutputSource(m, index)
  IN IF index \notin DOMAIN m.channels THEN got
     ELSE LET src == m.channels[index]
              named == setTrackName(got, index, StrEmpty)
              unset == SetOutputSource(named, index, Undefined)
          IN Remove(Release(unset, src), src)

\* The loop of clearSources from index on (an exception would end it).
RECURSIVE clearSourcesFrom(_, _)
clearSourcesFrom(m, index) ==
  IF index < ClearLimit /\ m.thrown = NoError
  THEN clearSourcesFrom(clearSource(m, index), index + 1)
  ELSE m

\* parseInt('1'.repeat(n), 2), kept as the number of ones.
Ones(n) == <<"ones", n>>

\* clearSources().
clearSources(m) == setSetting(clearSourcesFrom(m, 1), "Output.RecTracks", Num(0))

\* One round of the forEach loops of setupSources: the track of one device.
setupTrack(m, kind, device, selection, currentTrack) ==
  LET made == Create(m, kind)
      source == LastId(made)
      named == setTrackName(made, currentTrack, device.name)
      set == [named EXCEPT !.sources[source].device_id = device.id,
                           !.sources[source].audioMixers = AudioMixers(currentTrack),
                           !.sources[source].muted = Muted(selection, device)]
  IN Release(SetOutputSource(set, currentTrack, source), source)

\* A forEach loop that leaves a track out after each device.
RECURSIVE setupTracksSkipping(_, _, _, _, _)
setupTracksSkipping(m, kind, devices, selection, currentTrack) ==
  IF devices = <<>> \/ m.thrown # NoError THEN m
  ELSE setupTracksSkipping(
         setupTrack(m, kind, Head(devices), selection, currentTrack),
         kind, Tail(devices), selection, currentTrack + 2)

\* A forEach loop of setupSources (an exception would end it).
RECURSIVE setupTracks(_, _, _, _, _)
setupTracks(m, kind, devices, selection, currentTrack) ==
  IF devices = <<>> \/ m.thrown # NoError THEN m
  ELSE setupTracks(setupTrack(m, kind, Head(devices), selection, currentTrack),
                   kind, Tail(devices), selection, currentTrack + 1)

\* setupSources(scene, audioInputDeviceId, audioOutputDeviceId).
setupSources(m, scene, audioInputDeviceId, audioOutputDeviceId, env) ==
  LET cleared == clearSources(m)
      main == SetOutputSource(cleared, 1, scene)
      named == setTrackName(main, 1, <<"Mixed: all sources">>)
      ins == getAvailableAudioInputDevices(env)
      outs == getAvailableAudioOutputDevices(env)
      withIns == setupTracks(getAudioDevices(named, "wasapi_input_capture"),
                             "wasapi_input_capture", ins, audioInputDeviceId, 2)
      withOuts == setupTracks(getAudioDevices(withIns, "wasapi_output_capture"),
                              "wasapi_output_capture", outs, audioOutputDeviceId,
                              2 + Len(ins))
      currentTrack == 2 + Len(ins) + Len(outs)
  IN setSetting(withOuts, "Output.RecTracks", Ones(currentTrack - 1))

(***************************************************************************)
(* The scene, the video source and the watcher of its size.                *)
(***************************************************************************)
\* The scale sceneItem.scale is set to: base / current on both axes.
\* A scale { x, y } is the pair <<x, y>>, and the quotient a / b the pair
\* <<a, b>>.
Scale(base, current) == <<<<base, current>>, <<base, current>>>>

UnitScale == <<<<Num(1), 1>>, <<Num(1), 1>>>>

\* watchVideoSourceSize without its clearInterval.
watchVideoSourceSizeNoClear(m, scene, videoSource, baseResolution) ==
  [m EXCEPT !.timers = @ \cup {[id |-> scene, videoSource |-> videoSource,
                                baseResolution |-> baseResolution]},
            !.timer = scene,
            !.watched = TRUE]

\* watchVideoSourceSize(sceneItem, videoSource, baseResolution): the timer
\* last set is cleared and a new one is set.
watchVideoSourceSize(m, scene, videoSource, baseResolution) ==
  [m EXCEPT !.timers = {t \in @ : t.id # m.timer}
                       \cup {[id |-> scene, videoSource |-> videoSource,
                              baseResolution |-> baseResolution]},
            !.timer = scene,
            !.watched = TRUE]

\* setOBSVideoResolution(res, paramString); available is what
\* getAvailableValues('Video', 'Untitled', paramString) returns.
setOBSVideoResolution(m, res, key, available) ==
  LET read == Log(m, <<"getAvailableValues", key,
                       IF available.defined THEN Len(available.values) ELSE -1>>)
  IN IF ~available.defined
     THEN Throw(read, <<"TypeError">>)
     ELSE setSetting(read, key, getClosestResolution(available.values, res))

\* displayInfo(displayIndex).
displayInfo(env, displayIndex) ==
  IF \E i \in 1..Len(env.displays) : env.displays[i].index = displayIndex
  THEN Some(env.displays[CHOOSE i \in 1..Len(env.displays) :
                      /\ env.displays[i].index = displayIndex
                      /\ \A j \in 1..(i - 1) : env.displays[j].index # displayIndex])
  ELSE None

\* setupScene from the switch on: the video source is created, the base
\* resolution is set, the scene is created with the source at unit scale, and
\* the watcher is started.
sceneOf(m, kind, baseResolution, env) ==
  LET made == Create(m, kind)
      videoSource == LastId(made)
      based == setOBSVideoResolution(made, baseResolution, "Video.Base",
                                     env.baseValues)
      created == Create(based, "scene")
      scene == LastId(created)
      added == [created EXCEPT !.sources = AddRef(@, videoSource),
                               !.sources[scene].item = videoSource,
                               !.sources[scene].scale = UnitScale,
                               !.scene = scene]
  IN IF based.thrown # NoError THEN based
     ELSE watchVideoSourceSize(added, scene, videoSource, baseResolution)

\* setupScene(options).
setupScene(m, options, env) ==
  LET outputResolution == parseResolutionsString(options.obsOutputResolution)
      output == setOBSVideoResolution(m, outputResolution, "Video.Output",
                                      env.outputValues)
      selectedDisplay == displayInfo(env, options.monitorIndex - 1)
  IN IF output.thrown # NoError THEN output
     ELSE IF options.obsCaptureMode = "monitor_capture"
     THEN IF selectedDisplay = None
          THEN Throw(output, <<"No such display">>)
          ELSE sceneOf(output, "monitor_capture",
                       selectedDisplay[1].physicalSize, env)
     ELSE IF options.obsCaptureMode = "game_capture"
     THEN sceneOf(output, "game_capture", outputResolution, env)
     ELSE Throw(output, <<"Invalid capture mode">>)

(***************************************************************************)
(* Configuration.                                                          *)
(***************************************************************************)
\* setObsRecEncoder(options); env.encoders is what
\* getObsAvailableRecEncoders() returns.
setObsRecEncoder(m, options, env) ==
  LET availableEncoders == env.encoders
      read == Log(m, <<"getSettings", "Output.RecEncoder">>)
      encoder == options.obsRecEncoder
      autoPickEncoder ==
        \/ encoder = Undefined \/ encoder = <<"">> \/ encoder = <<"auto">>
        \/ \A i \in 1..Len(availableEncoders.values) :
             availableEncoders.values[i] # encoder
  IN IF ~availableEncoders.defined THEN Throw(read, <<"TypeError">>)
     ELSE setSetting(read, "Output.RecEncoder",
                     IF autoPickEncoder
                     THEN At(availableEncoders.values,
                             Len(availableEncoders.values) - 1)
                     ELSE encoder)

\* configureOBS(options).
configureOBS(m, options, env) ==
  LET mode == setSetting(m, "Output.Mode", <<"Advanced">>)
      enc == setObsRecEncoder(mode, options, env)
      path == setSetting(enc, "Output.RecFilePath", options.bufferStorageDir)
      format == setSetting(path, "Output.RecFormat", <<"mp4">>)
      rate == setSetting(format, "Output.Recrate_control", <<"VBR">>)
      bitrate == setSetting(rate, "Output.Recbitrate",
                            Num(options.obsKBitRate * 1024))
      maxrate == setSetting(bitrate, "Output.Recmax_bitrate", Num(300000))
  IN IF enc.thrown # NoError THEN enc
     ELSE setSetting(maxrate, "Video.FPSCommon", Num(options.obsFPS))

\* reconfigure(options) without the reset of lastVideoSourceSize.
reconfigureKeepLastSize(m, options, env) ==
  LET configured == configureOBS(m, options, env)
      withScene == setupScene(configured, options, env)
  IN IF configured.thrown # NoError THEN configured
     ELSE IF withScene.thrown # NoError THEN withScene
     ELSE setupSources(withScene, withScene.scene, options.audioInputDeviceId,
                       options.audioOutputDeviceId, env)

\* reconfigure(options).
reconfigure(m, options, env) ==
  LET reset == [m EXCEPT !.last = None]
      configured == configureOBS(reset, options, env)
      withScene == setupScene(configured, options, env)
  IN IF configured.thrown # NoError THEN configured
     ELSE IF withScene.thrown # NoError THEN withScene
     ELSE setupSources(withScene, withScene.scene, options.audioInputDeviceId,
                       options.audioOutputDeviceId, env)

(***************************************************************************)
(* Initialization and shutdown.                                            *)
(***************************************************************************)
\* shutdown() without its test of obsInitialized.
shutdownUnguarded(m, fault) ==
  LET removed == [[m EXCEPT !.calls = Append(@, <<"OBS_service_removeCallback">>)]
                    EXCEPT !.callback = FALSE]
      disconnected ==
        [[removed EXCEPT !.calls = Append(@, <<"IPC.disconnect">>)]
           EXCEPT !.hosted = FALSE, !.sources = <<>>, !.channels = <<>>]
  IN [disconnected EXCEPT !.initialized = FALSE, !.result = "true"]

\* shutdown(); fault names the engine call that throws, if one does.
shutdown(m, fault) ==
  LET removed == [Log(m, <<"OBS_service_removeCallback">>)
                    EXCEPT !.callback = FALSE]
      disconnected ==
        [Log(removed, <<"IPC.disconnect">>)
           EXCEPT !.hosted = FALSE,
                  \* the engine process ends, and its sources with it
                  !.sources = <<>>, !.channels = <<>>]
  IN IF ~m.initialized THEN [m EXCEPT !.result = "false"]
     ELSE IF fault = "removeCallback"
     THEN Throw(Log(m, <<"OBS_service_removeCallback">>), <<"ShutdownError">>)
     ELSE IF fault = "disconnect"
     THEN Throw(Log(removed, <<"IPC.disconnect">>), <<"ShutdownError">>)
     ELSE [disconnected EXCEPT !.initialized = FALSE, !.result = "true"]

\* initOBS() connecting the callback before it looks at the result.
initOBSCallbackFirst(m, env) ==
  LET host == [[m EXCEPT !.calls = Append(@, <<"IPC.host">>)]
                 EXCEPT !.hosted = TRUE]
      dir == [host EXCEPT !.calls = Append(@, <<"SetWorkingDirectory">>)]
      init == [dir EXCEPT !.calls = Append(@, <<"OBS_API_initAPI",
                                               env.initResult>>)]
      connected ==
        [[init EXCEPT !.calls = Append(@, <<"OBS_service_connectOutputSignals">>)]
           EXCEPT !.callback = TRUE]
  IN IF env.initResult # 0
     THEN [connected EXCEPT !.thrown = <<"EngineInitError", env.initResult>>]
     ELSE connected

\* initOBS(); env.initResult is what OBS_API_initAPI returns.
initOBS(m, env) ==
  LET host == [Log(m, <<"IPC.host">>) EXCEPT !.hosted = TRUE]
      dir == Log(host, <<"SetWorkingDirectory">>)
      init == Log(dir, <<"OBS_API_initAPI", env.initResult>>)
  IN IF env.initResult # 0
     THEN Throw(shutdown(init, "none"), <<"EngineInitError", env.initResult>>)
     ELSE [Log(init, <<"OBS_service_connectOutputSignals">>)
             EXCEPT !.callback = TRUE]

\* initialize(options) without its test of obsInitialized.
initializeUnguarded(m, options, env) ==
  LET inited == initOBS(m, env)
      configured == reconfigure(inited, options, env)
  IN IF inited.thrown # NoError THEN inited
     ELSE IF configured.thrown # NoError THEN configured
     ELSE [configured EXCEPT !.initialized = TRUE]

\* initialize(options).
initialize(m, options, env) ==
  LET inited == initOBS(m, env)
      configured == reconfigure(inited, options, env)
  IN IF m.initialized THEN m
     ELSE IF inited.thrown # NoError THEN inited
     ELSE IF configured.thrown # NoError THEN configured
     ELSE [configured EXCEPT !.initialized = TRUE]

(***************************************************************************)
(* The signal queue (the wait-queue package) and assertNextSignal.         *)
(* shift() takes the head of the queue when there is one and otherwise     *)
(* leaves a listener, which the next push serves.  Promise.race does not   *)
(* withdraw the listener of a shift() that lost against the timeout: it    *)
(* stays in the queue, "abandoned", and what it is given goes nowhere.     *)
(*                                                                         *)
(* A call of start() or stop() is the record a: what it has still to await *)
(* (remaining), the values it has awaited (waits), the signal its last     *)
(* wait was given (signalInfo), the number of signals that passed both     *)
(* tests (matched), whether its last wait left a listener (waited), where  *)
(* it is (state), and whether the call before it was a start() that ended  *)
(* well (afterStart).                                                      *)
(***************************************************************************)
\* The tests of assertNextSignal without the one on the type of the signal.
checkSignalAnyType(signalInfo, value) ==
  IF signalInfo.signal # value THEN "unexpected (3)" ELSE "asserted"

\* The tests of assertNextSignal on the signal it was given.
checkSignal(signalInfo, value) ==
  IF signalInfo.type # "recording" THEN "unexpected (2)"
  ELSE IF signalInfo.signal # value THEN "unexpected (3)"
  ELSE "asserted"

\* The signals start() awaits, and those stop() awaits.
StartSignals == <<"start">>

\* stop() awaiting 'stop' before 'stopping'.
StopSignalsSwapped == <<"stop", "stopping", "wrote">>

StopSignals == <<"stopping", "stop", "wrote">>

\* What follows a wait of the call that was given signalInfo: the call goes on
\* to its next wait, which is served at once when a signal is queued, when the
\* signal is as expected, and ends otherwise.
RECURSIVE given(_, _)
given(a, signalInfo) ==
  LET verdict == checkSignal(signalInfo, Head(a.remaining))
      got == [a EXCEPT !.signalInfo = Some(signalInfo)]
      passed == [got EXCEPT !.remaining = Tail(@), !.matched = @ + 1]
      next == [passed EXCEPT !.waits = Append(@, Head(passed.remaining))]
  IN IF verdict # "asserted" THEN [got EXCEPT !.state = verdict]
     ELSE IF passed.remaining = <<>> THEN [passed EXCEPT !.state = "done"]
     ELSE IF passed.queue = <<>>
     THEN [next EXCEPT !.listeners = Append(@, "pending"),
                       !.state = "waiting", !.waited = TRUE]
     ELSE given([next EXCEPT !.queue = Tail(@), !.waited = FALSE],
                Head(passed.queue))

\* assertNextSignal(Head(a.remaining)), the first wait of a call.
assertNextSignal(a) ==
  LET begun == [a EXCEPT !.waits = Append(@, Head(a.remaining))]
  IN IF a.queue = <<>>
     THEN [begun EXCEPT !.listeners = Append(@, "pending"),
                        !.state = "waiting", !.waited = TRUE]
     ELSE given([begun EXCEPT !.queue = Tail(@), !.waited = FALSE],
                Head(a.queue))

\* waitQueue.push(signalInfo): the signal is queued, and the first listener,
\* if there is one, takes the head of the queue.
push(a, signalInfo) ==
  LET queued == [a EXCEPT !.queue = Append(@, signalInfo)]
      served == [queued EXCEPT !.queue = Tail(@), !.listeners = Tail(@)]
  IN IF a.listeners = <<>> THEN queued
     ELSE IF Head(a.listeners) = "pending"
     THEN given(served, Head(queued.queue))
     ELSE [served EXCEPT !.lost = TRUE]

\* The timeout of the pending wait: the race is lost, the listener stays.
timeout(a) ==
  [a EXCEPT !.state = "timeout",
            !.listeners = [i \in 1..Len(@) |->
                             IF @[i] = "pending" THEN "abandoned" ELSE @[i]]]

(***************************************************************************)
(* The inputs: the options a caller passes and what the engine answers.    *)
(***************************************************************************)
Size(w, h) == [width |-> Num(w), height |-> Num(h)]

\* n devices as the engine lists them, after its default device.
Devices(prefix, n) ==
  <<[id |-> StrDefault, name |-> <<"D", "e", "f", "a", "u", "l", "t">>]>>
  \o [i \in 1..n |-> [id |-> <<prefix>> \o ToStr(i),
                      name |-> <<prefix, " ">> \o ToStr(i)]]

Defined(values) == [defined |-> TRUE, values |-> values]

NotDefined == [defined |-> FALSE, values |-> <<>>]

BaseOptions ==
  [obsCaptureMode |-> "game_capture", monitorIndex |-> 1,
   obsOutputResolution |-> ResString(2 * DimStep, DimStep),
   audioInputDeviceId |-> StrAll, audioOutputDeviceId |-> StrAll,
   obsRecEncoder |-> <<"auto">>, bufferStorageDir |-> <<"buffer">>,
   obsKBitRate |-> 15, obsFPS |-> 60]

BaseEnv ==
  [initResult |-> 0,
   encoders |-> Defined(<<<<"obs_x264">>, <<"jim_nvenc">>>>),
   outputValues |-> Defined(<<ResString(2 * DimStep, DimStep),
                              ResString(4 * DimStep, 2 * DimStep)>>),
   baseValues |-> Defined(<<ResString(2 * DimStep, DimStep),
                            ResString(4 * DimStep, 2 * DimStep)>>),
   displays |-> <<[index |-> 0, physicalSize |-> Size(4 * DimStep, 2 * DimStep)]>>,
   inputDevices |-> Devices("i", 1),
   outputDevices |-> Devices("o", 1)]

\* The sizes a video source reports.
VideoSizes == {[width |-> w, height |-> h] : w \in {0, DimStep, 2 * DimStep},
                                             h \in {0, DimStep}}

\* The signals the engine sends.
Signals ==
  {[type |-> "recording", signal |-> k] :
     k \in {"start", "stopping", "stop", "wrote"}}
  \cup {[type |-> "streaming", signal |-> "start"]}

(***************************************************************************)
(* The initial state: the module is loaded, the engine is not started.     *)
(***************************************************************************)
SettingKeys ==
  {"Output.Mode", "Output.RecEncoder", "Output.RecFilePath", "Output.RecFormat",
   "Output.Recrate_control", "Output.Recbitrate", "Output.Recmax_bitrate",
   "Video.FPSCommon", "Video.Output", "Video.Base", "Output.RecTracks"}

NoCall ==
  [op |-> "none", state |-> "idle", remaining |-> <<>>, waits |-> <<>>,
   signalInfo |-> None, matched |-> 0, waited |-> FALSE,
   afterStart |-> FALSE]

NoClosestCall ==
  [resolutions |-> <<>>, target |-> Size(DimStep, DimStep), called |-> FALSE,
   result |-> Undefined]

Init ==
  /\ obsInitialized = FALSE
  /\ timerVideoSourceSize = Undefined
  /\ lastVideoSourceSize = None
  /\ waitQueue = [queue |-> <<>>, listeners |-> <<>>]
  /\ hosted = FALSE
  /\ signalCallback = FALSE
  /\ sources = <<>>
  /\ channels = <<>>
  /\ timers = {}
  /\ settings = [params |-> [k \in SettingKeys |-> Undefined],
                 trackNames |-> <<>>]
  /\ call = NoCall
  /\ engineCalls = <<>>
  /\ returned = [op |-> "none", value |-> "undefined", error |-> NoError,
                 devices |-> <<0, 0>>, selection |-> <<StrAll, StrAll>>]
  /\ lost = FALSE
  /\ shutdownSinceWatch = FALSE
  /\ tickedAfterShutdown = FALSE
  /\ reconfigures = 0
  /\ closestCall = NoClosestCall

(***************************************************************************)
(* The synchronous handlers as actions.                                    *)
(***************************************************************************)
\* The machine a synchronous handler starts on.
Machine(gen) ==
  [initialized |-> obsInitialized, timer |-> timerVideoSourceSize,
   last |-> lastVideoSourceSize, hosted |-> hosted, callback |-> signalCallback,
   sources |-> sources, channels |-> channels, timers |-> timers,
   settings |-> settings, calls |-> <<>>, thrown |-> NoError,
   result |-> "undefined", gen |-> gen, created |-> 0, scene |-> Undefined,
   watched |-> FALSE]

\* The state the handler op leaves, having run to m; devices are the numbers
\* of input and output devices it was given and selection the two selections.
Leave(op, m, devices, selection) ==
  /\ obsInitialized' = m.initialized
  /\ timerVideoSourceSize' = m.timer
  /\ lastVideoSourceSize' = m.last
  /\ hosted' = m.hosted
  /\ signalCallback' = m.callback
  /\ sources' = m.sources
  /\ channels' = m.channels
  /\ timers' = m.timers
  /\ settings' = m.settings
  /\ engineCalls' = m.calls
  /\ returned' = [op |-> op,
                  value |-> IF m.thrown = NoError THEN m.result ELSE "threw",
                  error |-> m.thrown, devices |-> devices,
                  selection |-> selection]
  /\ shutdownSinceWatch' =
       IF m.watched THEN FALSE
       ELSE IF op = "shutdown" /\ m.thrown = NoError /\ m.result = "true" THEN TRUE
       ELSE shutdownSinceWatch
  /\ UNCHANGED <<waitQueue, call, lost, tickedAfterShutdown, closestCall>>

DeviceCounts(env) ==
  <<Len(getAvailableAudioInputDevices(env)),
    Len(getAvailableAudioOutputDevices(env))>>

Selection(options) ==
  <<options.audioInputDeviceId, options.audioOutputDeviceId>>

\* initialize(options) is called.
Initialize(options, env) ==
  /\ reconfigures < MaxReconfigures
  /\ reconfigures' = IF obsInitialized \/ env.initResult # 0 THEN reconfigures
                     ELSE reconfigures + 1
  /\ \E m \in {initialize(Machine(reconfigures + 1), options, env)} :
       Leave("initialize", m, DeviceCounts(env), Selection(options))

\* reconfigure(options) is called, the engine being hosted.
Reconfigure(options, env) ==
  /\ hosted
  /\ reconfigures < MaxReconfigures
  /\ reconfigures' = reconfigures + 1
  /\ \E m \in {reconfigure(Machine(reconfigures + 1), options, env)} :
       Leave("reconfigure", m, DeviceCounts(env), Selection(options))

\* shutdown() is called.
Shutdown(fault) ==
  /\ fault # "none" => obsInitialized
  /\ reconfigures' = reconfigures
  /\ \E m \in {shutdown(Machine(reconfigures), fault)} : Leave("shutdown", m, <<0, 0>>, <<StrAll, StrAll>>)

\* The interval timer t fires: the tick of the watcher, which reads the size
\* current of its video source.
Tick(t, current) ==
  /\ tickedAfterShutdown' = (tickedAfterShutdown \/ shutdownSinceWatch)
  /\ IF \/ current.width = 0 \/ current.height = 0
        \/ lastVideoSourceSize = Some(current)
     THEN /\ UNCHANGED <<lastVideoSourceSize, sources>>
          /\ engineCalls' = <<<<"videoSource.width", t.videoSource, current.width>>,
                              <<"videoSource.height", t.videoSource,
                                current.height>>>>
     ELSE /\ lastVideoSourceSize' = Some(current)
          /\ sources' = IF t.id \in DOMAIN sources
                        THEN [sources EXCEPT ![t.id].scale =
                                Scale(t.baseResolution.width, current.width)]
                        ELSE sources
          /\ engineCalls' = <<<<"videoSource.width", t.videoSource, current.width>>,
                              <<"videoSource.height", t.videoSource,
                                current.height>>,
                              <<"sceneItem.scale", t.id>>>>
  /\ returned' = [op |-> "tick", value |-> "undefined", error |-> NoError,
                  devices |-> <<0, 0>>, selection |-> <<StrAll, StrAll>>]
  /\ UNCHANGED <<obsInitialized, timerVideoSourceSize, waitQueue, hosted,
                 signalCallback, channels, timers, settings, call, lost,
                 shutdownSinceWatch, reconfigures, closestCall>>

(***************************************************************************)
(* start(), stop(), the engine's callback and the timeout.                 *)
(***************************************************************************)
\* The call op begins: it awaits the signals values.
Begin(op, values) ==
  [queue |-> waitQueue.queue, listeners |-> waitQueue.listeners, lost |-> lost,
   op |-> op, state |-> "running", remaining |-> values, waits |-> <<>>,
   signalInfo |-> None, matched |-> 0, waited |-> FALSE,
   afterStart |-> (call.op = "start" /\ call.state = "done")]

\* The call in progress, with the queue.
Running ==
  [queue |-> waitQueue.queue, listeners |-> waitQueue.listeners, lost |-> lost,
   op |-> call.op, state |-> call.state, remaining |-> call.remaining,
   waits |-> call.waits, signalInfo |-> call.signalInfo,
   matched |-> call.matched, waited |-> call.waited,
   afterStart |-> call.afterStart]

\* The call of a.
CallOf(a) ==
  [op |-> a.op, state |-> a.state, remaining |-> a.remaining,
   waits |-> a.waits, signalInfo |-> a.signalInfo, matched |-> a.matched,
   waited |-> a.waited, afterStart |-> a.afterStart]

\* The queue and the call after a step that ends in a.
Settle(a) ==
  /\ waitQueue' = [queue |-> a.queue, listeners |-> a.listeners]
  /\ call' = CallOf(a)
  /\ lost' = a.lost

\* start() without its test of obsInitialized.
StartUnguarded ==
  /\ call.state # "waiting"
  /\ \E a \in {assertNextSignal(Begin("start", <<"start">>))} : Settle(a)
  /\ engineCalls' = <<<<"OBS_service_startRecording">>>>
  /\ returned' = [op |-> "start", value |-> "promise", error |-> NoError,
                  devices |-> <<0, 0>>, selection |-> <<StrAll, StrAll>>]
  /\ UNCHANGED <<obsInitialized, timerVideoSourceSize, lastVideoSourceSize,
                 hosted, signalCallback, sources, channels, timers, settings,
                 shutdownSinceWatch, tickedAfterShutdown, reconfigures,
                 closestCall>>

\* start() is called, no call being in progress.
Start ==
  /\ call.state # "waiting"
  /\ IF ~obsInitialized
     THEN /\ call' = CallOf([Begin("start", <<>>) EXCEPT
                                !.state = "not initialised"])
          /\ engineCalls' = <<>>
          /\ returned' = [op |-> "start", value |-> "threw",
                          error |-> <<"OBS not initialised">>,
                          devices |-> <<0, 0>>, selection |-> <<StrAll, StrAll>>]
          /\ UNCHANGED <<waitQueue, lost>>
     ELSE /\ \E a \in {assertNextSignal(Begin("start", StartSignals))} :
               Settle(a)
          /\ engineCalls' = <<<<"OBS_service_startRecording">>>>
          /\ returned' = [op |-> "start", value |-> "promise", error |-> NoError,
                          devices |-> <<0, 0>>, selection |-> <<StrAll, StrAll>>]
  /\ UNCHANGED <<obsInitialized, timerVideoSourceSize, lastVideoSourceSize,
                 hosted, signalCallback, sources, channels, timers, settings,
                 shutdownSinceWatch, tickedAfterShutdown, reconfigures,
                 closestCall>>

\* stop() is called, no call being in progress.
Stop ==
  /\ call.state # "waiting"
  /\ \E a \in {assertNextSignal(Begin("stop", StopSignals))} : Settle(a)
  /\ engineCalls' = <<<<"OBS_service_stopRecording">>>>
  /\ returned' = [op |-> "stop", value |-> "promise", error |-> NoError,
                  devices |-> <<0, 0>>, selection |-> <<StrAll, StrAll>>]
  /\ UNCHANGED <<obsInitialized, timerVideoSourceSize, lastVideoSourceSize,
                 hosted, signalCallback, sources, channels, timers, settings,
                 shutdownSinceWatch, tickedAfterShutdown, reconfigures,
                 closestCall>>

\* The engine calls the callback connected in initOBS with signalInfo.
Signal(signalInfo) ==
  /\ signalCallback
  /\ waitQueue.listeners # <<>> \/ Len(waitQueue.queue) < MaxQueue
  /\ \E a \in {push(Running, signalInfo)} : Settle(a)
  /\ UNCHANGED <<obsInitialized, timerVideoSourceSize, lastVideoSourceSize,
                 hosted, signalCallback, sources, channels, timers, settings,
                 engineCalls, returned, shutdownSinceWatch, tickedAfterShutdown,
                 reconfigures, closestCall>>

\* The 5 seconds of the pending wait are over.
Timeout ==
  /\ call.state = "waiting"
  /\ Cardinality({i \in 1..Len(waitQueue.listeners) :
                    waitQueue.listeners[i] = "abandoned"}) < MaxAbandoned
  /\ \E a \in {timeout(Running)} : Settle(a)
  /\ UNCHANGED <<obsInitialized, timerVideoSourceSize, lastVideoSourceSize,
                 hosted, signalCallback, sources, channels, timers, settings,
                 engineCalls, returned, shutdownSinceWatch, tickedAfterShutdown,
                 reconfigures, closestCall>>

(***************************************************************************)
(* getClosestResolution applied to the arguments closestCall holds.        *)
(***************************************************************************)
Closest ==
  /\ ~closestCall.called
  /\ closestCall' =
       [closestCall EXCEPT !.called = TRUE,
                           !.result = getClosestResolution(closestCall.resolutions,
                                                           closestCall.target)]
  /\ UNCHANGED <<obsInitialized, timerVideoSourceSize, lastVideoSourceSize,
                 waitQueue, hosted, signalCallback, sources, channels, timers,
                 settings, call, engineCalls, returned, lost,
                 shutdownSinceWatch, tickedAfterShutdown, reconfigures>>

\* The resolution strings and the lists of them closest is applied to.
Dims == {k * DimStep : k \in 1..MaxDim}

Resolutions == {ResString(w, h) : w \in Dims, h \in Dims}

ResolutionLists == UNION {[1..n -> Resolutions] : n \in 0..MaxList}

InitClosest ==
  /\ Init!1 /\ Init!2 /\ Init!3 /\ Init!4 /\ Init!5 /\ Init!6 /\ Init!7
  /\ Init!8 /\ Init!9 /\ Init!10 /\ Init!11 /\ Init!12 /\ Init!13 /\ Init!14
  /\ Init!15 /\ Init!16 /\ Init!17
  /\ closestCall \in [resolutions : ResolutionLists,
                      target : {Size(w, h) : w \in Dims, h \in Dims},
                      called : {FALSE}, result : {Undefined}]

(***************************************************************************)
(* The specifications.                                                     *)
(***************************************************************************)
\* The options and engine answers of the lifecycle.
LifecycleOptions ==
  {[BaseOptions EXCEPT !.obsCaptureMode = c[1], !.monitorIndex = c[2]] :
     c \in {<<"game_capture", 1>>, <<"monitor_capture", 1>>,
            <<"monitor_capture", 2>>, <<"window_capture", 1>>}}

LifecycleEnvs ==
  {[BaseEnv EXCEPT !.initResult = r, !.baseValues = b] :
     r \in {0, -5}, b \in {BaseEnv.baseValues, NotDefined, Defined(<<>>)}}

Faults == {"none", "removeCallback", "disconnect"}

\* Initialization, reconfiguration, shutdown and the watcher.
Next ==
  \/ \E o \in LifecycleOptions, e \in LifecycleEnvs : Initialize(o, e)
  \/ \E o \in LifecycleOptions, e \in LifecycleEnvs : Reconfigure(o, e)
  \/ \E f \in Faults : Shutdown(f)
  \/ \E t \in timers, c \in VideoSizes : Tick(t, c)

Spec == Init /\ [][Next]_vars

\* start() and stop() against the engine's signals, in a session that is
\* initialized, with and without success, and shut down.
NextSignal ==
  \/ \E r \in {0, -5} : Initialize(BaseOptions, [BaseEnv EXCEPT !.initResult = r])
  \/ Shutdown("none")
  \/ Start
  \/ Stop
  \/ \E s \in Signals : Signal(s)
  \/ Timeout

SignalSpec == Init /\ [][NextSignal]_vars

\* The device snapshots of the audio tracks: small ones, and large ones that
\* reach the last output channels and pass them.
SnapshotEnv(i, o) ==
  [BaseEnv EXCEPT !.inputDevices = Devices("i", i),
                  !.outputDevices = Devices("o", o)]

SmallEnvs == {SnapshotEnv(i, o) : i \in 0..MaxInputs, o \in 0..MaxOutputs}

LargeEnvs == {SnapshotEnv(i, ManyOutputs) : i \in {MaxInputs - 1, MaxInputs}}

SourceEnvs == SmallEnvs \cup LargeEnvs

\* The selections of the devices to record.
SourceOptions ==
  {[BaseOptions EXCEPT !.audioInputDeviceId = c[1],
                       !.audioOutputDeviceId = c[2]] :
     c \in {<<StrAll, StrAll>>, <<StrNone, <<"o">> \o ToStr(1)>>,
            <<<<"i">> \o ToStr(1), StrNone>>, <<<<"i">> \o ToStr(1), StrAll>>,
            <<StrAll, <<"o">> \o ToStr(1)>>}}

\* Configurations over the device snapshots, from the initialization on:
\* every selection on the small ones, all devices on the large ones.
NextSources ==
  \/ \E e \in SourceEnvs : ~obsInitialized /\ Initialize(BaseOptions, e)
  \/ \E o \in SourceOptions, e \in SmallEnvs : Reconfigure(o, e)
  \/ \E e \in LargeEnvs : Reconfigure(BaseOptions, e)

SourcesSpec == Init /\ [][NextSources]_vars

\* getClosestResolution on every list and target within the bounds.
NextClosest == Closest

ClosestSpec == InitClosest /\ [][NextClosest]_vars

(***************************************************************************)
(* The waits of start() and stop().                                        *)
(***************************************************************************)
\* The waits a call of op makes when every signal is the expected one.
WaitsOf(op) ==
  IF op = "start" THEN <<"start">>
  ELSE IF op = "stop" THEN <<"stopping", "stop", "wrote">>
  ELSE <<>>

Ended == {"done", "timeout", "unexpected (2)", "unexpected (3)"}

Unexpected == {"unexpected (2)", "unexpected (3)"}

\* C1: a call of start() makes the one wait 'start' and a call of stop() the
\* waits 'stopping', 'stop', 'wrote', in this order, so that start() followed
\* by stop() makes exactly the four waits 'start', 'stopping', 'stop', 'wrote';
\* a call that is given an unexpected signal ends at that wait: its waits are
\* the expected ones up to and including the failed one, and no later one.
C1_WaitsInOrder ==
  /\ call.state \in {"idle", "not initialised"} => call.waits = <<>>
  /\ call.state = "done" =>
       /\ call.waits = WaitsOf(call.op)
       /\ call.matched = Len(call.waits)
       /\ call.op = "stop" /\ call.afterStart =>
            <<"start">> \o call.waits = <<"start", "stopping", "stop", "wrote">>
  /\ call.state \in (Ended \ {"done"}) \cup {"waiting"} =>
       /\ call.matched < Len(WaitsOf(call.op))
       /\ call.waits = SubSeq(WaitsOf(call.op), 1, call.matched + 1)

\* start() ended well and the stop() after it made its three waits.
C1_Witness ==
  /\ call.op = "stop"
  /\ call.afterStart
  /\ call.state = "done"
  /\ call.waits = <<"stopping", "stop", "wrote">>

\* C2: no signal is taken on behalf of a wait that timed out: every signal
\* the callback pushed is in the queue or was given to a wait of a call.
C2_NoSignalLost == ~lost

\* C3: a wait has three outcomes.  It resolves, without a listener when the
\* head of the queue is the expected signal; it fails with the timeout when
\* no signal is pushed to it; it fails as unexpected behaviour when the signal
\* it is given is not of type 'recording' (2) or not the awaited one (3).
C3_Outcome ==
  /\ call.state \in {"idle", "not initialised", "waiting"} \cup Ended
  /\ call.state = "done" =>
       /\ Len(call.signalInfo) = 1
       /\ call.signalInfo[1].type = "recording"
       /\ call.signalInfo[1].signal = call.waits[Len(call.waits)]
  /\ call.state = "unexpected (2)" =>
       /\ Len(call.signalInfo) = 1
       /\ call.signalInfo[1].type # "recording"
  /\ call.state = "unexpected (3)" =>
       /\ Len(call.signalInfo) = 1
       /\ call.signalInfo[1].type = "recording"
       /\ call.signalInfo[1].signal # call.waits[Len(call.waits)]
  /\ call.state \in {"timeout", "waiting"} =>
       /\ call.waited
       /\ IF call.matched = 0 THEN call.signalInfo = None
          ELSE /\ Len(call.signalInfo) = 1
               /\ call.signalInfo[1].signal = call.waits[call.matched]

\* A call begins in this step: it takes from the queue or leaves a listener.
CallBegins ==
  /\ call.state # "waiting"
  /\ \/ Len(waitQueue'.queue) < Len(waitQueue.queue)
     \/ Len(waitQueue'.listeners) > Len(waitQueue.listeners)

C3_Step ==
  /\ CallBegins /\ waitQueue.queue # <<>> =>
       IF checkSignal(Head(waitQueue.queue), call'.waits[1]) = "asserted"
       THEN /\ call'.matched >= 1
            /\ call'.op = "start" =>
                 /\ call'.state = "done"
                 /\ ~call'.waited
                 /\ waitQueue'.listeners = waitQueue.listeners
       ELSE /\ call'.state \in Unexpected
            /\ call'.matched = 0
            /\ waitQueue'.listeners = waitQueue.listeners
  /\ CallBegins /\ waitQueue.queue = <<>> =>
       call'.state = "waiting" /\ call'.matched = 0
  /\ /\ call.state = "waiting"
     /\ call'.state # "waiting"
     /\ Len(waitQueue'.listeners) = Len(waitQueue.listeners)
     => call'.state = "timeout"
  /\ call.state # "timeout" /\ call'.state = "timeout" =>
       /\ call.state = "waiting"
       /\ waitQueue'.queue = waitQueue.queue
       /\ call'.matched = call.matched
       /\ call'.signalInfo = call.signalInfo

\* C3: every wait ends in one of the three outcomes, and each step of a call
\* takes the outcome the queue and the signal it is given determine.
C3_AwaitOutcomes == [](C3_Outcome) /\ [][C3_Step]_vars

\* A wait of each outcome is reached; this one resolved without a listener.
C3_Witness ==
  /\ call.op = "start"
  /\ call.state = "done"
  /\ ~call.waited
  /\ waitQueue.listeners = <<>>

(***************************************************************************)
(* The handles of a configuration.                                         *)
(***************************************************************************)
VideoKinds == {"game_capture", "monitor_capture"}

\* The sources of the kinds ks the engine holds that were not removed.
Existing(ks) ==
  {id \in DOMAIN sources : sources[id].kind \in ks /\ ~sources[id].removed}

\* The last handler configured the engine and returned.
Configured ==
  /\ returned.op \in {"initialize", "reconfigure"}
  /\ returned.error = NoError
  /\ engineCalls # <<>>

\* C4: after a configure call returned, no channel beyond 64 being occupied,
\* the occupied channels are the scene's and those of the snapshot this call
\* saw, 2 .. 1 + inputs + outputs, each holding a source this call made.
C4_TracksOfLastSnapshot ==
  Configured /\ DOMAIN channels \subseteq 1..64 =>
    /\ DOMAIN channels = 1..(1 + returned.devices[1] + returned.devices[2])
    /\ \A c \in DOMAIN channels : channels[c][1] = reconfigures

\* C5: in a configure call no handle of an earlier configuration is released
\* or removed after a handle of the new one was created.
C5_ReleaseBeforeCreate ==
  returned.op = "reconfigure" =>
    \A i \in 1..Len(engineCalls), j \in 1..Len(engineCalls) :
      /\ i < j
      /\ engineCalls[i][1] = "create"
      /\ engineCalls[j][1] \in {"release", "remove"}
      => engineCalls[j][2][1] = engineCalls[i][3][1]

\* C6: after a configure call returned the engine holds at most one video
\* source and at most one scene.
C6_OneVideoSourceAndScene ==
  Configured =>
    /\ Cardinality(Existing(VideoKinds)) <= 1
    /\ Cardinality(Existing({"scene"})) <= 1

(***************************************************************************)
(* shutdown() and the watcher.                                             *)
(***************************************************************************)
\* The step is a call of shutdown() that changes the state or what returned.
ShutdownStep == returned'.op = "shutdown"

\* C7 as the specification states it: shutdown() on a session that is not
\* initialized returns false and makes no engine call; on an initialized one
\* it returns true and leaves the session uninitialized.
C7_ShutdownStepAsStated ==
  /\ ShutdownStep /\ ~obsInitialized =>
       returned'.value = "false" /\ engineCalls' = <<>> /\ ~obsInitialized'
  /\ ShutdownStep /\ obsInitialized =>
       returned'.value = "true" /\ ~obsInitialized'

\* C7 as stated: every call of shutdown() on an initialized session returns
\* true and leaves it uninitialized.
C7_ShutdownAlwaysTrue == [][C7_ShutdownStepAsStated]_vars

\* C7, amended: shutdown() on a session that is not initialized returns false
\* and makes no engine call; on an initialized one it returns true and leaves
\* the session uninitialized, unless one of its two engine calls throws: then
\* it throws and the session stays initialized.
C7_ShutdownStep ==
  /\ ShutdownStep /\ ~obsInitialized =>
       /\ returned'.value = "false"
       /\ engineCalls' = <<>>
       /\ ~obsInitialized'
       /\ UNCHANGED <<hosted, signalCallback, sources, channels>>
  /\ ShutdownStep /\ obsInitialized =>
       \/ /\ returned'.value = "true"
          /\ ~obsInitialized'
          /\ engineCalls' = <<<<"OBS_service_removeCallback">>,
                              <<"IPC.disconnect">>>>
       \/ /\ returned'.value = "threw"
          /\ obsInitialized'
          /\ engineCalls' # <<>>

\* C7, amended: shutdown() returns false without an engine call, or true
\* leaving the session uninitialized, or throws leaving it initialized.
C7_ShutdownReturn ==
  /\ [](returned.op = "shutdown" /\ returned.value \in {"true", "false"} =>
          ~obsInitialized)
  /\ [][C7_ShutdownStep]_vars

\* shutdown() returned true: a session was initialized and is no more.
C7_Witness ==
  /\ returned.op = "shutdown"
  /\ returned.value = "true"
  /\ ~obsInitialized
  /\ reconfigures >= 1

\* C8: no tick runs after shutdown() returned true, until a configure call
\* starts a watcher.
C8_NoTickAfterShutdown == ~tickedAfterShutdown

\* C9: at most one watcher is active, the one started last.
C9_OneWatcher ==
  /\ Cardinality(timers) <= 1
  /\ \A t \in timers : t.id = timerVideoSourceSize

\* The watcher of a second configuration is active.
C9_Witness ==
  /\ reconfigures >= 2
  /\ timers # {}
  /\ \E t \in timers : t.id[1] = 2

(***************************************************************************)
(* getClosestResolution.                                                   *)
(***************************************************************************)
\* C10: on a list that is not empty closest returns an element of the list,
\* and the element that equals the target when there is one.
C10_ClosestIsMember ==
  closestCall.called /\ closestCall.resolutions # <<>> =>
    LET list == closestCall.resolutions
        same == ResString(closestCall.target.width[2],
                          closestCall.target.height[2])
    IN /\ \E i \in 1..Len(list) : closestCall.result = list[i]
       /\ (\E i \in 1..Len(list) : list[i] = same) => closestCall.result = same

(***************************************************************************)
(* The resolution a configuration sets.                                    *)
(***************************************************************************)
\* C11: a configure call in which the engine answers an empty list of
\* resolutions for a parameter fails, and does not save that parameter
\* afterwards.
C11_EmptyListFails ==
  \A i \in 1..Len(engineCalls) :
    engineCalls[i][1] = "getAvailableValues" /\ engineCalls[i][3] = 0 =>
      /\ returned.value = "threw"
      /\ \A j \in (i + 1)..Len(engineCalls) :
           ~(/\ engineCalls[j][1] = "saveSettings"
             /\ engineCalls[j][2] = engineCalls[i][2])

\* The score of the string s for the target t, on the integers.
ScoreOf(t, s) ==
  LET r == parseResolutionsString(s)
      d == (t.width[2] - r.width[2]) * 2 + (t.height[2] - r.height[2]) * 4
  IN IF d < 0 THEN -d ELSE d

\* closest on the list of 1920x1080 and its twin, for the target 1920x1080.
TwinExample ==
  getClosestResolution(<<ResString(1920, 1080), ResString(1080, 1920)>>,
                       Size(1920, 1080))

\* C12: on a list that is not empty closest returns the first element of
\* minimal score abs((target.w - w) * 2 + (target.h - h) * 4); for the list
\* [1920x1080, 1080x1920] and the target 1920x1080 that is 1920x1080.
C12_MinimalScoreFirst ==
  /\ TwinExample = ResString(1920, 1080)
  /\ closestCall.called /\ closestCall.resolutions # <<>> =>
       LET list == closestCall.resolutions
           t == closestCall.target
       IN \E i \in 1..Len(list) :
            /\ closestCall.result = list[i]
            /\ \A j \in 1..Len(list) : ScoreOf(t, list[j]) >= ScoreOf(t, list[i])
            /\ \A j \in 1..(i - 1) : ScoreOf(t, list[j]) > ScoreOf(t, list[i])

\* closest took the first of two different candidates of the same score.
C12_Witness ==
  /\ closestCall.called
  /\ Len(closestCall.resolutions) = 2
  /\ closestCall.resolutions[1] # closestCall.resolutions[2]
  /\ ScoreOf(closestCall.target, closestCall.resolutions[1])
       = ScoreOf(closestCall.target, closestCall.resolutions[2])
  /\ closestCall.result = closestCall.resolutions[1]

(***************************************************************************)
(* The audio tracks of a configuration.                                    *)
(***************************************************************************)
\* The channels of the input devices and of the output devices of the
\* snapshot the last configure call saw.
InputTracks == 2..(1 + returned.devices[1])

OutputTracks ==
  (2 + returned.devices[1])..(1 + returned.devices[1] + returned.devices[2])

\* The mute flag the policy gives the device with this id under a selection.
PolicyMuted(selection, id) ==
  IF selection = StrAll THEN FALSE
  ELSE IF selection = StrNone THEN TRUE
  ELSE id # selection

\* C13: after a configure call returned, the track of every input device is
\* muted as the input selection says ('all': none muted, 'none': all muted, an
\* id: all but the device of that id muted), and the track of every output
\* device as the output selection says.
C13_MutePolicy ==
  Configured =>
    /\ \A c \in InputTracks :
         /\ sources[channels[c]].kind = "wasapi_input_capture"
         /\ sources[channels[c]].muted =
              PolicyMuted(returned.selection[1], sources[channels[c]].device_id)
    /\ \A c \in OutputTracks :
         /\ sources[channels[c]].kind = "wasapi_output_capture"
         /\ sources[channels[c]].muted =
              PolicyMuted(returned.selection[2], sources[channels[c]].device_id)

\* One input device is selected by its id and no output device: of two input
\* tracks exactly the selected one is not muted, and the output track is.
C13_Witness ==
  /\ Configured
  /\ returned.devices = <<2, 1>>
  /\ returned.selection = <<<<"i", "1">>, StrNone>>
  /\ ~sources[channels[2]].muted
  /\ sources[channels[3]].muted
  /\ sources[channels[4]].muted

\* C14: no configure call puts a source into an output channel beyond 64,
\* and no channel beyond 64 is occupied.
C14_TrackCeiling ==
  /\ \A c \in DOMAIN channels : c <= 64
  /\ \A i \in 1..Len(engineCalls) :
       engineCalls[i][1] = "setOutputSource" /\ engineCalls[i][3] # Undefined
         => engineCalls[i][2] <= 64

\* The engine call c puts a source into an output channel.
IsAssignment(c) == c[1] = "setOutputSource" /\ c[3] # Undefined

\* The channels the last handler put sources into, in the order of its calls.
Assignments == SelectSeq(engineCalls, IsAssignment)

\* C15: a configure call that returned put the scene into channel 1 and then
\* one source per device into the channels 2, 3, ... in this order, the input
\* devices in the order of the snapshot first and the output devices after
\* them, each channel once and none left out, whatever the number of devices.
C15_DenseTracks ==
  Configured =>
    LET ins == returned.devices[1]
        outs == returned.devices[2]
    IN /\ Len(Assignments) = 1 + ins + outs
       /\ \A k \in 1..Len(Assignments) :
            /\ Assignments[k][2] = k
            /\ channels[k] = Assignments[k][3]
       /\ sources[channels[1]].kind = "scene"
       /\ \A k \in 1..ins :
            /\ sources[channels[1 + k]].kind = "wasapi_input_capture"
            /\ sources[channels[1 + k]].device_id = <<"i">> \o ToStr(k)
       /\ \A k \in 1..outs :
            /\ sources[channels[1 + ins + k]].kind = "wasapi_output_capture"
            /\ sources[channels[1 + ins + k]].device_id = <<"o">> \o ToStr(k)

\* Two input devices and one output device have the tracks 2, 3 and 4.
C15_Witness ==
  /\ Configured
  /\ returned.devices = <<2, 1>>
  /\ Len(Assignments) = 4
  /\ sources[channels[3]].kind = "wasapi_input_capture"
  /\ sources[channels[4]].kind = "wasapi_output_capture"

(***************************************************************************)
(* initialize() and start() against the state of the session.              *)
(***************************************************************************)
\* The step is a call of initialize().
InitializeStep == returned'.op = "initialize"

\* What initialize() does on a session that is not initialized, by the code
\* the init entry point returned.
C16_InitStep ==
  InitializeStep /\ ~obsInitialized =>
    /\ Len(engineCalls') >= 3
    /\ engineCalls'[3][1] = "OBS_API_initAPI"
    /\ IF engineCalls'[3][2] # 0
       THEN /\ returned'.value = "threw"
            /\ returned'.error = <<"EngineInitError", engineCalls'[3][2]>>
            /\ Len(engineCalls') = 3
            /\ ~obsInitialized'
            /\ UNCHANGED <<signalCallback, sources, channels, settings, timers,
                           timerVideoSourceSize, lastVideoSourceSize>>
       ELSE /\ Len(engineCalls') > 4
            /\ engineCalls'[4] = <<"OBS_service_connectOutputSignals">>
            /\ signalCallback'
            /\ lastVideoSourceSize' = None
            /\ obsInitialized' <=> returned'.error = NoError

\* C16: when the init entry point returns a code that is not zero,
\* initialize() throws, connects no callback, runs no configuration and
\* leaves the session uninitialized; on zero it connects the callback, then
\* configures, and the session is initialized exactly when that threw nothing.
C16_InitFailure == [][C16_InitStep]_vars

\* An initialize() failed on the code -5.
C16_Witness ==
  /\ returned.op = "initialize"
  /\ returned.error = <<"EngineInitError", -5>>
  /\ ~obsInitialized
  /\ ~signalCallback
  /\ hosted

\* What initialize() does on a session that is initialized.
C17_NoOpStep ==
  InitializeStep /\ obsInitialized =>
    /\ engineCalls' = <<>>
    /\ returned'.value = "undefined"
    /\ returned'.error = NoError
    /\ UNCHANGED <<obsInitialized, lastVideoSourceSize, timerVideoSourceSize,
                   timers, sources, channels, settings, hosted, signalCallback,
                   waitQueue>>

\* C17: initialize() on an initialized session makes no engine call, creates
\* no source, scene, track or watcher and changes nothing of the session.
C17_InitializeNoOp == [][C17_NoOpStep]_vars

\* An initialize() returned on an initialized session, having made no call.
C17_Witness ==
  /\ returned.op = "initialize"
  /\ returned.error = NoError
  /\ engineCalls = <<>>
  /\ obsInitialized
  /\ timers # {}

\* The step is a call of start(): it changes what returned or the calls made,
\* or it leaves a call that found the session uninitialized.
StartStep ==
  /\ returned'.op = "start"
  /\ \/ returned' # returned
     \/ engineCalls' # engineCalls
     \/ call'.state = "not initialised" /\ call' # call

\* What start() does on a session that is not initialized.
C18_StartStep ==
  StartStep /\ ~obsInitialized =>
    /\ returned'.value = "threw"
    /\ returned'.error = <<"OBS not initialised">>
    /\ engineCalls' = <<>>
    /\ call'.state = "not initialised"
    /\ call'.waits = <<>>
    /\ UNCHANGED <<waitQueue, lost, obsInitialized>>

\* C18: start() on a session that is not initialized throws "OBS not
\* initialised", does not call the engine's start command and takes no signal
\* from the queue.
C18_StartUninitialized ==
  /\ [](call.state = "not initialised" =>
          call.op = "start" /\ call.waits = <<>> /\ call.matched = 0)
  /\ [][C18_StartStep]_vars

\* start() failed after a shutdown, with a signal in the queue.
C18_Witness ==
  /\ returned.op = "start"
  /\ returned.value = "threw"
  /\ call.state = "not initialised"
  /\ ~obsInitialized
  /\ reconfigures >= 1
  /\ waitQueue.queue # <<>>

\* C19: the mixer mask of the source in every audio channel from 2 to 64 has
\* the bit 0 and the bit of the channel's index less one set and no other,
\* that is, it is 1 + 2^(index - 1).
C19_MixerMask ==
  \A c \in DOMAIN channels :
    c >= 2 /\ c <= 64 => sources[channels[c]].audioMixers = {0, c - 1}

(***************************************************************************)
(* The size the watcher saw last.                                          *)
(***************************************************************************)
\* The step ran reconfigure(), by itself or in initialize().
ConfigureStep ==
  \/ returned'.op = "reconfigure"
  \/ /\ returned'.op = "initialize"
     /\ \E i \in 1..Len(engineCalls') :
          engineCalls'[i] = <<"OBS_service_connectOutputSignals">>

\* The step is a tick of the watcher.
TickStep == returned'.op = "tick"

\* What a configure call and a tick do to lastVideoSourceSize and the scale.
C20_Step ==
  /\ ConfigureStep => lastVideoSourceSize' = None
  /\ TickStep =>
       LET seen == [width |-> engineCalls'[1][3], height |-> engineCalls'[2][3]]
       IN IF \/ seen.width = 0 \/ seen.height = 0
             \/ lastVideoSourceSize = Some(seen)
          THEN /\ UNCHANGED <<lastVideoSourceSize, sources>>
               /\ Len(engineCalls') = 2
          ELSE /\ lastVideoSourceSize' = Some(seen)
               /\ Len(engineCalls') = 3
               /\ engineCalls'[3][1] = "sceneItem.scale"
               /\ \E t \in timers :
                    /\ t.id = engineCalls'[3][2]
                    /\ t.id \in DOMAIN sources =>
                         sources'[t.id].scale =
                           Scale(t.baseResolution.width, seen.width)

\* C20: a configure call leaves lastVideoSourceSize unknown, so the first tick
\* after it that sees a size without a zero applies the scale and records the
\* size; a tick that sees a zero, or the size recorded last, changes neither
\* the scale nor lastVideoSourceSize.
C20_ResetAndTick == [][C20_Step]_vars

\* A tick after the second configuration applied the scale.
C20_Witness ==
  /\ returned.op = "tick"
  /\ reconfigures = 2
  /\ Len(engineCalls) = 3
  /\ lastVideoSourceSize # None
  /\ \E t \in timers : t.id[1] = 2 /\ t.id \in DOMAIN sources
                       /\ sources[t.id].scale # UnitScale

(***************************************************************************)
(* What a failed initialize leaves behind.                                 *)
(***************************************************************************)
\* C21: in every reachable state the engine host is connected, the signal
\* callback is connected or a watcher timer is active only if obsInitialized
\* is set; a failed initialize leaves none of them behind.
C21_HostOnlyIfInitialized ==
  (hosted \/ signalCallback \/ timers # {}) => obsInitialized

(***************************************************************************)
(* A session after shutdown() and initialize().                            *)
(***************************************************************************)
\* How a start() called now ends when the engine then emits exactly one
\* 'start' signal: it takes the head of the queue if there is one, and waits
\* for the signal otherwise; "waiting" is a wait the signal did not serve.
StartOutcome ==
  LET a == assertNextSignal(Begin("start", StartSignals))
  IN IF a.state = "waiting"
     THEN push(a, [type |-> "recording", signal |-> "start"]).state
     ELSE a.state

\* The step is an initialize() that succeeds on a session shutdown() has
\* ended, the last start() or stop() of that session having failed.
FreshSessionStep ==
  /\ returned.op = "shutdown"
  /\ returned.value = "true"
  /\ returned'.op = "initialize"
  /\ ~obsInitialized
  /\ obsInitialized'
  /\ call.state \in Unexpected \cup {"timeout"}

\* C22: after shutdown() followed by a successful initialize(), a start() for
\* which the engine emits exactly one 'start' signal succeeds, whatever the
\* failed start() or stop() of the session before left in the queue.
C22_FreshSessionStart ==
  [][FreshSessionStep => StartOutcome' = "done"]_vars

(***************************************************************************)
(* The engine's recording commands.                                        *)
(***************************************************************************)
\* The step is a call of start() or stop() that begins: no call is awaiting,
\* and the step leaves a new result, a new call or a shorter queue.
CommandStep(op) ==
  /\ returned'.op = op
  /\ call.state # "waiting"
  /\ \/ returned' # returned
     \/ call' # call
     \/ Len(waitQueue'.queue) < Len(waitQueue.queue)

\* A recording is in progress for certain: the last handler was a start()
\* that has ended well.
Recording ==
  returned.op = "start" /\ call.op = "start" /\ call.state = "done"

\* What the state allows a step that issues a recording command.
C23_CommandStep ==
  /\ CommandStep("start") /\ engineCalls' = <<<<"OBS_service_startRecording">>>>
       => obsInitialized /\ ~Recording
  /\ CommandStep("stop") /\ engineCalls' = <<<<"OBS_service_stopRecording">>>>
       => obsInitialized /\ call.op = "start"

\* C23: the engine's start command is issued only on a session that is
\* initialized and not recording, and its stop command only on a session that
\* is initialized and whose last call was a start(); stop() on a session that
\* is not initialized issues no engine command.
C23_CommandsRespectState == [][C23_CommandStep]_vars

====
